---- MODULE Spec2Model ----
(***************************************************************************)
(* nameserver-forward: the DNS client (src/client.js: UDP query with a     *)
(* timer, promotion to a length-prefixed TCP session on truncation) and    *)
(* the forwarding middleware (src/index.js: sequential fallback over the   *)
(* configured servers, merge of the first successful answer).              *)
(*                                                                         *)
(* One Node.js event-loop turn is one action.  A promise reaction (the     *)
(* code after an await, a .then or a .catch) is a job of its own and is an *)
(* action of its own; while such a job of an invocation is pending no      *)
(* socket or timer event of that invocation is delivered.                  *)
(***************************************************************************)
EXTENDS Integers, Sequences, FiniteSets, TLC

\* ------------------------------------------------------------------ bounds
MaxServers == 3        \* longest configured server list
MaxDatagrams == 2      \* datagrams delivered to one UDP socket
MaxMsgLen == 3         \* longest enumerated message of the framing check
MaxOverlap == 2        \* stage-function invocations that overlap in time

\* ------------------------------------------------------- program constants
DnsPort == 53

Invocations == 1..MaxOverlap
Servers == {1, 2}                      \* host names "A" and "B"
None == [none |-> TRUE]

\* -------------------------------------------------------------- the codec
\* nameserver-packet is an external library.  The model's wire format keeps
\* the shape of a DNS message: id, flags (bit 0: truncated), rcode, the
\* counts of two sections, then the records (one byte each).
Serialize(p) ==
    <<p.id, IF p.truncated THEN 1 ELSE 0, p.rcode, Len(p.answer), Len(p.authority)>>
        \o p.answer \o p.authority \o p.additional

WellFormed(b) ==
    /\ Len(b) >= 5
    /\ b[2] \in {0, 1}
    /\ b[4] + b[5] <= Len(b) - 5

\* Packet.parse(b) of a well-formed b; on any other b it throws.
Parse(b) ==
    [id |-> b[1], truncated |-> (b[2] = 1), rcode |-> b[3],
     answer |-> SubSeq(b, 6, 5 + b[4]),
     authority |-> SubSeq(b, 6 + b[4], 5 + b[4] + b[5]),
     additional |-> SubSeq(b, 6 + b[4] + b[5], Len(b))]

\* ------------------------------------------------------------ environment
\* The query of invocation k (req.packet) and what an upstream may send.
Query(q) ==
    [id |-> q, truncated |-> FALSE, rcode |-> 0,
     answer |-> <<>>, authority |-> <<>>, additional |-> <<>>]

QueryId(k) == k

Good(s, q) ==
    Serialize([id |-> q, truncated |-> FALSE, rcode |-> s,
               answer |-> <<10 * s + 1, 10 * s + 2>>,
               authority |-> <<10 * s + 3>>, additional |-> <<10 * s + 4>>])

Trunc(s, q) ==
    Serialize([id |-> q, truncated |-> TRUE, rcode |-> s,
               answer |-> <<10 * s + 1>>, authority |-> <<>>, additional |-> <<>>])

Stray(q) ==
    Serialize([id |-> q + 7, truncated |-> FALSE, rcode |-> 2,
               answer |-> <<99>>, authority |-> <<>>, additional |-> <<>>])

Malformed(q) == <<q, 0>>

UdpDatagrams(s, q) == {Good(s, q), Trunc(s, q), Stray(q), Malformed(q)}

\* A frame as a standard DNS-over-TCP server writes it.
ServerFrame(m) == <<Len(m) \div 256, Len(m) % 256>> \o m

TcpStreams(s, q) ==
    { <<>>,
      ServerFrame(Good(s, q)),
      ServerFrame(Stray(q)) \o ServerFrame(Good(s, q)),
      ServerFrame(Malformed(q)) }

\* The response object the pipeline hands to the stage function.
ResInit ==
    { [rcode |-> 0, answer |-> <<>>, authority |-> <<>>, additional |-> <<>>],
      [rcode |-> 5, answer |-> <<90>>, authority |-> <<91>>, additional |-> <<92>>] }

RECURSIVE SeqsUpTo(_, _)
SeqsUpTo(S, n) ==
    IF n = 0 THEN {<<>>}
    ELSE LET shorter == SeqsUpTo(S, n - 1)
         IN  shorter \cup {Append(t, x) : t \in {u \in shorter : Len(u) = n - 1}, x \in S}

\* What the middleware can be constructed with: one name (a string) or a
\* list of names.
ForwarderArgs ==
    {[array |-> FALSE, value |-> s] : s \in Servers}
        \cup {[array |-> TRUE, value |-> l] : l \in SeqsUpTo(Servers, MaxServers) \ {<<>>}}

\* dns.lookup(host) yields one address and its family, or fails.
LookupResults(h) ==
    {[address |-> 100 + h, family |-> IF h = 1 THEN 4 ELSE 6]}

\* The options argument of the client: undefined, null or an object, whose
\* timeout is missing or some value.  v is the number, or what is left of it
\* in the model when it is no integer (2.5, "250").
OptionValue(t, v) == [type |-> t, v |-> v]

NoValue == OptionValue("undefined", 0)

NoOptions == [kind |-> "undefined", timeout |-> NoValue]

OptionsGiven ==
    {NoOptions, [kind |-> "null", timeout |-> NoValue]}
        \cup {[kind |-> "object", timeout |-> t] :
                 t \in {NoValue, OptionValue("integer", 1), OptionValue("integer", 500),
                        OptionValue("integer", 0), OptionValue("integer", -5),
                        OptionValue("fraction", 2), OptionValue("string", 250)}}

DefaultTimeout == 3000

\* Number.isInteger
IsInteger(x) == x.type = "integer"

\* client.js:84-88: the timeout of the timers of one exchange.
ClientTimeout(o) ==
    LET opts == IF o.kind \in {"null", "undefined"}
                THEN [kind |-> "object", timeout |-> NoValue]
                ELSE o
    IN  IF IsInteger(opts.timeout) THEN opts.timeout.v ELSE DefaultTimeout

\* ------------------------------------------------------------------ state
VARIABLES
    arg,                \* the argument the middleware was constructed with
    forwarders,         \* the server list of the stage function
    crashed,            \* the process died of an uncaught exception
    frameMsg,           \* the message of the framing check
    options,            \* the options each call of the client is given
    pc,                 \* where each invocation of the stage function is
    req, res, res0,     \* request, response object, response object at the call
    nextCalls,          \* the calls of the continuation, in order
    forwarderIterator,  \* elements the iterator has yielded
    started,            \* servers on which an exchange was started, in order
    failed,             \* exchanges that have failed
    error,              \* the error of the last rejected exchange (e of line 39)
    requestId, address,
    udpSocket, udpTimer, sendPending, udpDest,
    timerDelays,        \* the delays of the timers the exchange has armed, in order
    dgrams,             \* datagrams delivered to the socket's handler
    uncaught,           \* an exception left a handler of the exchange
    response,           \* the result of the UDP phase
    tcpSocket, tcpDest, tcpAttempts, tcpEnded, peerEnded, tcpTimer,
    listeners,          \* 'packet' listeners on the connection
    buffer, packetLength,
    stream,             \* bytes the peer has still to deliver
    handed,             \* the slices handed to Packet.parse on the connection
    written,            \* bytes the client wrote on the connection
    result              \* what the client resolved with

cfgVars == <<arg, forwarders, req, res0, frameMsg, options>>
fwdVars == <<res, nextCalls, forwarderIterator, started, failed>>
udpVars == <<requestId, address, udpSocket, udpTimer, sendPending,
             udpDest, timerDelays,
             dgrams, uncaught, response>>
tcpVars == <<tcpSocket, tcpDest, tcpAttempts, tcpEnded, peerEnded, tcpTimer,
             listeners, buffer, packetLength, stream, handed, written>>
vars == <<cfgVars, crashed, pc, error, result, fwdVars, udpVars, tcpVars>>

Undefined == -1

\* Jobs of the promise machinery: they run before any further event.
MicroPcs == {"udpDone", "connected", "resolved", "rejected", "exhausted"}

Quiet(k) == ~crashed /\ pc[k] \notin MicroPcs

\* next.value of the exchange in progress (0: none yet)
CurServer(k) == IF started[k] = <<>> THEN 0 ELSE started[k][Len(started[k])]

\* The argument kept only when it is a list.
NormalizeDropsString(a) == IF a.array THEN SubSeq(a.value, 1, Len(a.value)) ELSE <<>>

\* index.js:10
Normalize(a) == IF a.array THEN SubSeq(a.value, 1, Len(a.value)) ELSE <<a.value>>

InitCommon ==
    /\ forwarders = Normalize(arg)
    /\ crashed = FALSE
    /\ req = [k \in Invocations |-> Query(QueryId(k))]
    /\ res = res0
    /\ nextCalls = [k \in Invocations |-> <<>>]
    /\ forwarderIterator = [k \in Invocations |-> 0]
    /\ started = [k \in Invocations |-> <<>>]
    /\ failed = [k \in Invocations |-> 0]
    /\ error = [k \in Invocations |-> "none"]
    /\ result = [k \in Invocations |-> None]
    /\ requestId = [k \in Invocations |-> Undefined]
    /\ address = [k \in Invocations |-> None]
    /\ udpSocket = [k \in Invocations |-> "none"]
    /\ udpTimer = [k \in Invocations |-> "none"]
    /\ sendPending = [k \in Invocations |-> FALSE]
    /\ udpDest = [k \in Invocations |-> <<>>]
    /\ timerDelays = [k \in Invocations |-> <<>>]
    /\ dgrams = [k \in Invocations |-> <<>>]
    /\ uncaught = [k \in Invocations |-> FALSE]
    /\ response = [k \in Invocations |-> None]
    /\ tcpDest = [k \in Invocations |-> <<>>]
    /\ tcpAttempts = [k \in Invocations |-> 0]
    /\ tcpEnded = [k \in Invocations |-> FALSE]
    /\ peerEnded = [k \in Invocations |-> FALSE]
    /\ tcpTimer = [k \in Invocations |-> "none"]
    /\ listeners = [k \in Invocations |-> 0]
    /\ buffer = [k \in Invocations |-> <<>>]
    /\ packetLength = [k \in Invocations |-> Undefined]
    /\ handed = [k \in Invocations |-> <<>>]

InitIdle ==
    /\ InitCommon
    /\ options = [k \in Invocations |-> NoOptions]
    /\ frameMsg = <<>>
    /\ pc = [k \in Invocations |-> "idle"]
    /\ tcpSocket = [k \in Invocations |-> "none"]
    /\ stream = [k \in Invocations |-> <<>>]
    /\ written = [k \in Invocations |-> <<>>]

EmptyRes == [rcode |-> 0, answer |-> <<>>, authority |-> <<>>, additional |-> <<>>]

\* One invocation of a stage function constructed from any argument.
Init ==
    /\ arg \in ForwarderArgs
    /\ \E r \in ResInit : res0 = [k \in Invocations |-> IF k = 1 THEN r ELSE EmptyRes]
    /\ InitIdle

\* ------------------------------------------------------------ src/index.js
\* index.js:27: every invocation of the stage function creates its own
\* iterator over the server list.
IteratorOf(k) == k

\* client.js:82-98: the setup of one exchange, up to the lookup in flight.
\* Everything local to the previous exchange of the invocation is gone.
ClientStart(k) ==
    /\ result' = [result EXCEPT ![k] = None]
    /\ requestId' = [requestId EXCEPT ![k] = Undefined]
    /\ address' = [address EXCEPT ![k] = None]
    /\ udpSocket' = [udpSocket EXCEPT ![k] = "none"]
    /\ udpTimer' = [udpTimer EXCEPT ![k] = "none"]
    /\ sendPending' = [sendPending EXCEPT ![k] = FALSE]
    /\ udpDest' = [udpDest EXCEPT ![k] = <<>>]
    /\ timerDelays' = [timerDelays EXCEPT ![k] = <<>>]
    /\ dgrams' = [dgrams EXCEPT ![k] = <<>>]
    /\ uncaught' = [uncaught EXCEPT ![k] = FALSE]
    /\ response' = [response EXCEPT ![k] = None]
    /\ tcpSocket' = [tcpSocket EXCEPT ![k] = "none"]
    /\ tcpDest' = [tcpDest EXCEPT ![k] = <<>>]
    /\ tcpAttempts' = [tcpAttempts EXCEPT ![k] = 0]
    /\ tcpEnded' = [tcpEnded EXCEPT ![k] = FALSE]
    /\ peerEnded' = [peerEnded EXCEPT ![k] = FALSE]
    /\ tcpTimer' = [tcpTimer EXCEPT ![k] = "none"]
    /\ listeners' = [listeners EXCEPT ![k] = 0]
    /\ buffer' = [buffer EXCEPT ![k] = <<>>]
    /\ packetLength' = [packetLength EXCEPT ![k] = Undefined]
    /\ stream' = [stream EXCEPT ![k] = <<>>]
    /\ handed' = [handed EXCEPT ![k] = <<>>]
    /\ written' = [written EXCEPT ![k] = <<>>]

\* tryForward retrying the server it has just tried, and giving up after
\* as many attempts as there are servers.
TryForwardSame(k, it) ==
    LET yielded == it[IteratorOf(k)]
    IN  IF yielded >= Len(forwarders)
        THEN /\ pc' = [pc EXCEPT ![k] = "exhausted"]
             /\ forwarderIterator' = it
             /\ UNCHANGED <<started, error, result, udpVars, tcpVars>>
        ELSE /\ forwarderIterator' = [it EXCEPT ![IteratorOf(k)] = yielded + 1]
             /\ started' = [started EXCEPT ![k] = Append(@, forwarders[1])]
             /\ pc' = [pc EXCEPT ![k] = "lookup"]
             /\ UNCHANGED error
             /\ ClientStart(k)

\* index.js:29-43, tryForward: take the next server off the iterator `it`;
\* none left: a rejected promise, else start the exchange on it.
TryForward(k, it) ==
    LET yielded == it[IteratorOf(k)]
    IN  IF yielded >= Len(forwarders)
        THEN /\ pc' = [pc EXCEPT ![k] = "exhausted"]
             /\ forwarderIterator' = it
             /\ UNCHANGED <<started, error, result, udpVars, tcpVars>>
        ELSE /\ forwarderIterator' = [it EXCEPT ![IteratorOf(k)] = yielded + 1]
             /\ started' = [started EXCEPT ![k] = Append(@, forwarders[yielded + 1])]
             /\ pc' = [pc EXCEPT ![k] = "lookup"]
             /\ UNCHANGED error
             /\ ClientStart(k)

\* index.js:12-50: the stage function is called.
Invoke(k) ==
    /\ ~crashed
    /\ pc[k] = "idle"
    /\ TryForward(k, [forwarderIterator EXCEPT ![IteratorOf(k)] = 0])
    /\ UNCHANGED <<cfgVars, crashed, res, nextCalls, failed>>

\* The catch of line 39 recording the failure in the response object.
CatchMarksFailure(k) ==
    /\ ~crashed
    /\ pc[k] = "rejected"
    /\ failed' = [failed EXCEPT ![k] = @ + 1]
    /\ res' = [res EXCEPT ![k].rcode = 2]
    /\ TryForward(k, forwarderIterator)
    /\ UNCHANGED <<cfgVars, crashed, nextCalls>>

\* The catch of line 39 treating a failed lookup as fatal.
CatchGivesUp(k) ==
    /\ ~crashed
    /\ pc[k] = "rejected"
    /\ failed' = [failed EXCEPT ![k] = @ + 1]
    /\ IF error[k] = "AddressLookupFailure"
       THEN /\ pc' = [pc EXCEPT ![k] = "exhausted"]
            /\ UNCHANGED <<forwarderIterator, started, error, result, udpVars, tcpVars>>
       ELSE TryForward(k, forwarderIterator)
    /\ UNCHANGED <<cfgVars, crashed, res, nextCalls>>

\* index.js:39-42: the exchange was rejected; whatever the error, try the next.
Catch(k) ==
    /\ ~crashed
    /\ pc[k] = "rejected"
    /\ failed' = [failed EXCEPT ![k] = @ + 1]
    /\ TryForward(k, forwarderIterator)
    /\ UNCHANGED <<cfgVars, crashed, res, nextCalls>>

\* The exhaustion handed to the continuation without the error.
ExhaustedSilent(k) ==
    /\ ~crashed
    /\ pc[k] = "exhausted"
    /\ nextCalls' = [nextCalls EXCEPT ![k] = Append(@, "ok")]
    /\ pc' = [pc EXCEPT ![k] = "done"]
    /\ UNCHANGED <<cfgVars, crashed, error, result, res, forwarderIterator, started,
                   failed, udpVars, tcpVars>>

\* index.js:47-50: the chain was rejected: the continuation gets the error.
Exhausted(k) ==
    /\ ~crashed
    /\ pc[k] = "exhausted"
    /\ nextCalls' = [nextCalls EXCEPT ![k] = Append(@, "No more servers to try")]
    /\ pc' = [pc EXCEPT ![k] = "done"]
    /\ UNCHANGED <<cfgVars, crashed, error, result, res, forwarderIterator, started,
                   failed, udpVars, tcpVars>>

\* The merge with the append of the answers turned into an assignment.
MergeReplaces(r, p) ==
    [rcode |-> p.rcode,
     answer |-> p.answer,
     authority |-> r.authority \o p.authority,
     additional |-> r.additional \o p.additional]

\* index.js:13-23: the merge of a result into the response object.
Merge(r, p) ==
    [rcode |-> p.rcode,
     answer |-> r.answer \o p.answer,
     authority |-> r.authority \o p.authority,
     additional |-> r.additional \o p.additional]

\* index.js:13-25 and 46-50: the exchange was resolved.  next() may throw, and
\* what it throws reaches the catch of line 47.
Success(k, nextThrows) ==
    /\ ~crashed
    /\ pc[k] = "resolved"
    /\ res' = [res EXCEPT ![k] = Merge(@, result[k])]
    /\ nextCalls' = [nextCalls EXCEPT ![k] =
                        IF nextThrows THEN @ \o <<"ok", "thrown by next">>
                        ELSE Append(@, "ok")]
    /\ pc' = [pc EXCEPT ![k] = "done"]
    /\ UNCHANGED <<cfgVars, crashed, error, result, forwarderIterator, started,
                   failed, udpVars, tcpVars>>

\* ----------------------------------------------------------- src/client.js
\* client.js:90-98: the lookup failed.
LookupFailed(k) ==
    /\ ~crashed
    /\ pc[k] = "lookup"
    /\ pc' = [pc EXCEPT ![k] = "rejected"]
    /\ error' = [error EXCEPT ![k] = "AddressLookupFailure"]
    /\ UNCHANGED <<cfgVars, crashed, result, fwdVars, udpVars, tcpVars>>

\* client.js:90-127: the lookup yielded a; the UDP phase is set up: the timer
\* armed, the socket created, the query handed to send.
LookupDone(k, a) ==
    /\ ~crashed
    /\ pc[k] = "lookup"
    /\ address' = [address EXCEPT ![k] = a]
    /\ requestId' = [requestId EXCEPT ![k] = req[k].id]
    /\ udpTimer' = [udpTimer EXCEPT ![k] = "armed"]
    /\ udpSocket' = [udpSocket EXCEPT ![k] = "open"]
    /\ sendPending' = [sendPending EXCEPT ![k] = TRUE]
    /\ udpDest' = [udpDest EXCEPT ![k] = <<a.address, DnsPort>>]
    /\ timerDelays' = [timerDelays EXCEPT ![k] = Append(@, ClientTimeout(options[k]))]
    /\ pc' = [pc EXCEPT ![k] = "udp"]
    /\ error' = [error EXCEPT ![k] = "none"]
    /\ UNCHANGED <<cfgVars, crashed, result, fwdVars, dgrams, uncaught,
                   response, tcpVars>>

\* The callback of send rejecting without cancelling the timer.
UdpSendDoneKeepsTimer(k, e) ==
    /\ Quiet(k)
    /\ sendPending[k]
    /\ sendPending' = [sendPending EXCEPT ![k] = FALSE]
    /\ IF e
       THEN /\ udpSocket' = [udpSocket EXCEPT ![k] = "closed"]
            /\ pc' = [pc EXCEPT ![k] = "rejected"]
            /\ error' = [error EXCEPT ![k] = "SendFailure"]
            /\ UNCHANGED udpTimer
       ELSE UNCHANGED <<udpTimer, udpSocket, pc, error>>
    /\ UNCHANGED <<cfgVars, crashed, result, fwdVars, requestId, address, udpDest, timerDelays,
                   dgrams, uncaught, response, tcpVars>>

\* client.js:121-127: the callback of send, with an error or without.
UdpSendDone(k, e) ==
    /\ Quiet(k)
    /\ sendPending[k]
    /\ sendPending' = [sendPending EXCEPT ![k] = FALSE]
    /\ IF e
       THEN /\ udpTimer' = [udpTimer EXCEPT ![k] = "cleared"]
            /\ udpSocket' = [udpSocket EXCEPT ![k] = "closed"]
            /\ pc' = [pc EXCEPT ![k] = "rejected"]
            /\ error' = [error EXCEPT ![k] = "SendFailure"]
       ELSE UNCHANGED <<udpTimer, udpSocket, pc, error>>
    /\ UNCHANGED <<cfgVars, crashed, result, fwdVars, requestId, address, udpDest, timerDelays,
                   dgrams, uncaught, response, tcpVars>>

\* The timer of the UDP phase rejecting without closing the socket.
UdpTimeoutLeavesSocket(k) ==
    /\ Quiet(k)
    /\ udpTimer[k] = "armed"
    /\ ~sendPending[k]
    /\ udpTimer' = [udpTimer EXCEPT ![k] = "fired"]
    /\ pc' = [pc EXCEPT ![k] = "rejected"]
    /\ error' = [error EXCEPT ![k] = "Timeout"]
    /\ UNCHANGED <<cfgVars, crashed, result, fwdVars, requestId, address, sendPending,
                   udpSocket, udpDest, timerDelays, dgrams, uncaught, response, tcpVars>>

\* client.js:107-110: the timer of the UDP phase fires.  The callback of send
\* comes before the timer and before any datagram: the datagram leaves in
\* the turn that issued it, the timer runs for at least a millisecond.
UdpTimeout(k) ==
    /\ Quiet(k)
    /\ udpTimer[k] = "armed"
    /\ ~sendPending[k]
    /\ udpTimer' = [udpTimer EXCEPT ![k] = "fired"]
    /\ udpSocket' = [udpSocket EXCEPT ![k] = "closed"]
    /\ pc' = [pc EXCEPT ![k] = "rejected"]
    /\ error' = [error EXCEPT ![k] = "Timeout"]
    /\ UNCHANGED <<cfgVars, crashed, result, fwdVars, requestId, address, sendPending,
                   udpDest, timerDelays, dgrams, uncaught, response, tcpVars>>

\* Any decoded datagram taken for the answer.
IdMatchesAny(p, id) == TRUE

\* client.js:114: is the decoded datagram p the answer to the query?
IdMatches(p, id) == p.id = id

\* client.js:112-119: a datagram d arrives on the socket.  Packet.parse is
\* not guarded: what it throws leaves the handler, and the process dies of it
\* unless the host application handles uncaught exceptions (dies).
UdpMessage(k, d, dies) ==
    /\ Quiet(k)
    /\ udpSocket[k] = "open"
    /\ ~sendPending[k]
    /\ Len(dgrams[k]) < MaxDatagrams
    /\ dgrams' = [dgrams EXCEPT ![k] = Append(@, d)]
    /\ IF ~WellFormed(d)
       THEN /\ uncaught' = [uncaught EXCEPT ![k] = TRUE]
            /\ crashed' = dies
            /\ UNCHANGED <<udpTimer, udpSocket, response, pc>>
       ELSE /\ ~dies
            /\ IF IdMatches(Parse(d), requestId[k])
               THEN /\ udpTimer' = [udpTimer EXCEPT ![k] = "cleared"]
                    /\ udpSocket' = [udpSocket EXCEPT ![k] = "closed"]
                    /\ response' = [response EXCEPT ![k] = Parse(d)]
                    /\ pc' = [pc EXCEPT ![k] = "udpDone"]
               ELSE UNCHANGED <<udpTimer, udpSocket, response, pc>>
            /\ UNCHANGED <<uncaught, crashed>>
    /\ UNCHANGED <<cfgVars, error, result, fwdVars, requestId, address, sendPending,
                   udpDest, timerDelays, tcpVars>>

\* Every UDP result retried over TCP.
EscalatesAlways(r) == TRUE

\* client.js:130: is the UDP result to be retried over TCP?
Escalates(r) == r.truncated

\* client.js:130-137 and 14-24: the code after the UDP phase.  A response
\* that is not truncated is the result; else a connection is opened.
AfterUdp(k) ==
    /\ ~crashed
    /\ pc[k] = "udpDone"
    /\ IF ~Escalates(response[k])
       THEN /\ result' = [result EXCEPT ![k] = response[k]]
            /\ pc' = [pc EXCEPT ![k] = "resolved"]
            /\ UNCHANGED <<tcpSocket, tcpDest, tcpAttempts>>
       ELSE /\ tcpSocket' = [tcpSocket EXCEPT ![k] = "connecting"]
            /\ tcpDest' = [tcpDest EXCEPT ![k] = <<address[k].address, DnsPort>>]
            /\ tcpAttempts' = [tcpAttempts EXCEPT ![k] = @ + 1]
            /\ pc' = [pc EXCEPT ![k] = "connecting"]
            /\ UNCHANGED result
    /\ UNCHANGED <<cfgVars, crashed, error, fwdVars, udpVars, tcpEnded, peerEnded,
                   tcpTimer, listeners, buffer, packetLength, stream, handed, written>>

\* client.js:16-24: the connection is established; the peer will deliver st.
TcpConnect(k, st) ==
    /\ ~crashed
    /\ pc[k] = "connecting"
    /\ tcpSocket[k] = "connecting"
    /\ tcpSocket' = [tcpSocket EXCEPT ![k] = "open"]
    /\ stream' = [stream EXCEPT ![k] = st]
    /\ pc' = [pc EXCEPT ![k] = "connected"]
    /\ UNCHANGED <<cfgVars, crashed, error, result, fwdVars, udpVars, tcpDest,
                   tcpAttempts, tcpEnded, peerEnded, tcpTimer, listeners, buffer,
                   packetLength, handed, written>>

\* The length prefix written low byte first.
WriteFrameLittleEndian(b) == <<Len(b) % 256, (Len(b) \div 256) % 256>> \o b

\* client.js:155-159: the length as two bytes, high byte first, then the bytes.
WriteFrame(b) == <<(Len(b) \div 256) % 256, Len(b) % 256>> \o b

\* client.js:139-160: the code after the connect: the timer of the TCP phase,
\* the 'packet' listener, the query written as a frame.
TcpExchange(k) ==
    /\ ~crashed
    /\ pc[k] = "connected"
    /\ tcpTimer' = [tcpTimer EXCEPT ![k] = "armed"]
    /\ listeners' = [listeners EXCEPT ![k] = @ + 1]
    /\ written' = [written EXCEPT ![k] = WriteFrame(Serialize(req[k]))]
    /\ timerDelays' = [timerDelays EXCEPT ![k] = Append(@, ClientTimeout(options[k]))]
    /\ pc' = [pc EXCEPT ![k] = "tcp"]
    /\ UNCHANGED <<cfgVars, crashed, error, result, fwdVars, requestId, address,
                   udpSocket, udpTimer, sendPending, udpDest, dgrams, uncaught,
                   response, tcpSocket,
                   tcpDest, tcpAttempts, tcpEnded, peerEnded, buffer, packetLength,
                   stream, handed>>

\* Buffer.readUInt16BE
ReadUInt16BE(b) == b[1] * 256 + b[2]

\* client.js:44-68: the 'data' handler on the chunk b, with buf and pl the
\* buffer and the packet length it finds (an undefined buffer is the empty
\* one: the concatenation is the same).  It yields the buffer and the packet
\* length it leaves, the slice it handed to Packet.parse (if any), the packet
\* it emitted (if any) and whether the parse threw.
DataHandler(buf, pl, b) ==
    LET buffer1 == buf \o b
        unset == pl = Undefined \/ pl = 0
        early == unset /\ Len(buffer1) < 2
        pl1 == IF unset /\ ~early THEN ReadUInt16BE(buffer1) ELSE pl
        complete == ~early /\ Len(buffer1) >= pl1 + 2
        slice == SubSeq(buffer1, 3, pl1 + 2)
    IN  IF ~complete
        THEN [buffer |-> buffer1, packetLength |-> pl1, handed |-> <<>>,
              packet |-> None, threw |-> FALSE]
        ELSE IF WellFormed(slice)
        THEN [buffer |-> SubSeq(buffer1, pl1 + 1, Len(buffer1)),
              packetLength |-> Undefined, handed |-> <<slice>>,
              packet |-> Parse(slice), threw |-> FALSE]
        ELSE [buffer |-> buffer1, packetLength |-> pl1, handed |-> <<slice>>,
              packet |-> None, threw |-> TRUE]

\* client.js:150: removeListener('packet', arguments.callee).  The listener
\* is an arrow function: arguments is that of the client function, and its
\* callee is no listener of the connection, so none is removed.
RemoveListener(n) == n

\* client.js:44-68 and 146-153: the next n bytes of the peer arrive.
TcpData(k, n) ==
    /\ Quiet(k)
    /\ tcpSocket[k] = "open"
    /\ ~peerEnded[k]
    /\ n \in 1..Len(stream[k])
    /\ LET out == DataHandler(buffer[k], packetLength[k], SubSeq(stream[k], 1, n))
           match == /\ out.packet # None
                    /\ listeners[k] > 0
                    /\ out.packet.id = req[k].id
       IN  /\ stream' = [stream EXCEPT ![k] = SubSeq(@, n + 1, Len(@))]
           /\ buffer' = [buffer EXCEPT ![k] = out.buffer]
           /\ packetLength' = [packetLength EXCEPT ![k] = out.packetLength]
           /\ handed' = [handed EXCEPT ![k] = @ \o out.handed]
           /\ tcpEnded' = [tcpEnded EXCEPT ![k] = @ \/ out.threw]
           /\ IF match
              THEN /\ tcpTimer' = [tcpTimer EXCEPT ![k] =
                                      IF @ = "armed" THEN "cleared" ELSE @]
                   /\ listeners' = [listeners EXCEPT ![k] = RemoveListener(@)]
                   /\ IF pc[k] = "tcp"
                      THEN /\ pc' = [pc EXCEPT ![k] = "resolved"]
                           /\ result' = [result EXCEPT ![k] = out.packet]
                      ELSE UNCHANGED <<pc, result>>
              ELSE UNCHANGED <<tcpTimer, listeners, pc, result>>
    /\ UNCHANGED <<cfgVars, crashed, error, fwdVars, udpVars, tcpSocket, tcpDest,
                   tcpAttempts, peerEnded, written>>

\* client.js:26-30: 'error' on the connection.  The reject settles the
\* promise of getTcpSocket only while the connect is pending.
TcpError(k) ==
    /\ Quiet(k)
    /\ tcpSocket[k] \in {"connecting", "open"}
    /\ IF pc[k] = "connecting"
       THEN /\ pc' = [pc EXCEPT ![k] = "rejected"]
            /\ error' = [error EXCEPT ![k] = "ConnectFailure"]
       ELSE UNCHANGED <<pc, error>>
    /\ tcpEnded' = [tcpEnded EXCEPT ![k] = TRUE]
    /\ tcpSocket' = [tcpSocket EXCEPT ![k] = "destroyed"]
    /\ UNCHANGED <<cfgVars, crashed, result, fwdVars, udpVars, tcpDest, tcpAttempts,
                   peerEnded, tcpTimer, listeners, buffer, packetLength, stream,
                   handed, written>>

\* client.js:37-40: 'end': the peer will deliver no more.
TcpPeerEnd(k) ==
    /\ Quiet(k)
    /\ tcpSocket[k] = "open"
    /\ ~peerEnded[k]
    /\ peerEnded' = [peerEnded EXCEPT ![k] = TRUE]
    /\ stream' = [stream EXCEPT ![k] = <<>>]
    /\ IF pc[k] = "connecting"
       THEN /\ pc' = [pc EXCEPT ![k] = "rejected"]
            /\ error' = [error EXCEPT ![k] = "Connection has been ended"]
       ELSE UNCHANGED <<pc, error>>
    /\ UNCHANGED <<cfgVars, crashed, result, fwdVars, udpVars, tcpSocket, tcpDest,
                   tcpAttempts, tcpEnded, tcpTimer, listeners, buffer, packetLength,
                   handed, written>>

\* client.js:140-144: the timer of the TCP phase fires.
TcpTimeout(k) ==
    /\ Quiet(k)
    /\ tcpTimer[k] = "armed"
    /\ tcpTimer' = [tcpTimer EXCEPT ![k] = "fired"]
    /\ tcpEnded' = [tcpEnded EXCEPT ![k] = TRUE]
    /\ IF pc[k] = "tcp"
       THEN /\ pc' = [pc EXCEPT ![k] = "rejected"]
            /\ error' = [error EXCEPT ![k] = "Timeout"]
       ELSE UNCHANGED <<pc, error>>
    /\ UNCHANGED <<cfgVars, crashed, result, fwdVars, udpVars, tcpSocket, tcpDest,
                   tcpAttempts, peerEnded, listeners, buffer, packetLength, stream,
                   handed, written>>

\* ---------------------------------------------------------- specification
Next ==
    \/ Invoke(1)
    \/ Catch(1)
    \/ Exhausted(1)
    \/ \E t \in BOOLEAN : Success(1, t)
    \/ LookupFailed(1)
    \/ \E a \in LookupResults(CurServer(1)) : LookupDone(1, a)
    \/ \E e \in BOOLEAN : UdpSendDone(1, e)
    \/ UdpTimeout(1)
    \/ \E d \in UdpDatagrams(CurServer(1), req[1].id), dies \in BOOLEAN :
           UdpMessage(1, d, dies)
    \/ AfterUdp(1)
    \/ \E st \in TcpStreams(CurServer(1), req[1].id) : TcpConnect(1, st)
    \/ TcpExchange(1)
    \/ \E n \in 1..Len(stream[1]) : TcpData(1, n)
    \/ TcpError(1)
    \/ TcpPeerEnd(1)
    \/ TcpTimeout(1)

Spec == Init /\ [][Next]_vars

\* ------------------------------------------- overlapping invocations
\* The stage function of one middleware is called for several requests
\* before any of them has completed.  The upstreams answer over UDP, fail the
\* lookup or stay silent.
InitOverlap ==
    /\ arg \in {[array |-> TRUE, value |-> <<1, 2>>], [array |-> TRUE, value |-> <<2, 2>>]}
    /\ res0 = [k \in Invocations |-> EmptyRes]
    /\ InitIdle

NextOverlap ==
    \E k \in Invocations :
        \/ Invoke(k)
        \/ Catch(k)
        \/ Exhausted(k)
        \/ Success(k, FALSE)
        \/ LookupFailed(k)
        \/ \E a \in LookupResults(CurServer(k)) : LookupDone(k, a)
        \/ UdpSendDone(k, FALSE)
        \/ UdpTimeout(k)
        \/ UdpMessage(k, Good(CurServer(k), req[k].id), FALSE)
        \/ AfterUdp(k)

SpecOverlap == InitOverlap /\ [][NextOverlap]_vars

\* ------------------------------------------------------- framing round trip
\* A connection of getTcpSocket taken alone: the peer sends back one frame
\* that lines 155-159 wrote for a message, in chunks of any sizes.
LongLens == {255, 256, 258}

LongMsg(L) == [i \in 1..L |-> IF i <= 5 THEN 0 ELSE (7 * i) % 256]

FrameMsgs == SeqsUpTo({0, 7, 255}, MaxMsgLen) \cup {LongMsg(L) : L \in LongLens}

InitFrame ==
    /\ arg = [array |-> FALSE, value |-> 1]
    /\ res0 = [k \in Invocations |-> EmptyRes]
    /\ InitCommon
    /\ options = [k \in Invocations |-> NoOptions]
    /\ frameMsg \in FrameMsgs
    /\ pc = [k \in Invocations |-> IF k = 1 THEN "framing" ELSE "idle"]
    /\ tcpSocket = [k \in Invocations |-> IF k = 1 THEN "open" ELSE "none"]
    /\ written = [k \in Invocations |-> IF k = 1 THEN WriteFrame(frameMsg) ELSE <<>>]
    /\ stream = written

NextFrame == \E n \in 1..Len(stream[1]) : TcpData(1, n)

SpecFrame == InitFrame /\ [][NextFrame]_vars

\* ------------------------------------------------------------- properties
Succeeded(k) == pc[k] = "done" /\ result[k] # None

GaveUp(k) == pc[k] = "done" /\ result[k] = None

\* C1: when an invocation has succeeded on the server S tried after `failed`
\* earlier servers failed, the result is S's response, the response object
\* has S's rcode and, in each section, what it had at the call followed by
\* S's records in S's order, and the continuation was called without an error.
SuccessMerges ==
    \A k \in Invocations :
        Succeeded(k) =>
            /\ result[k] = Parse(Good(forwarders[failed[k] + 1], req[k].id))
            /\ res[k].rcode = result[k].rcode
            /\ res[k].answer = res0[k].answer \o result[k].answer
            /\ res[k].authority = res0[k].authority \o result[k].authority
            /\ res[k].additional = res0[k].additional \o result[k].additional
            /\ nextCalls[k][1] = "ok"

SuccessOnThird ==
    /\ Succeeded(1)
    /\ failed[1] = 2
    /\ forwarders[3] # forwarders[2]
    /\ res0[1].answer # <<>>
    /\ Len(res[1].answer) = 3

\* C2: when the exchange on every server has failed, the continuation is
\* called once, with the 'No more servers to try' error, and the response
\* object is what it was at the call.
ExhaustionReported ==
    \A k \in Invocations :
        GaveUp(k) =>
            /\ failed[k] = Len(forwarders)
            /\ nextCalls[k] = <<"No more servers to try">>
            /\ res[k] = res0[k]

BothFailed ==
    /\ GaveUp(1)
    /\ Len(forwarders) = 2
    /\ res0[1].answer # <<>>

\* C3: in every invocation, overlapping ones included, the servers on which
\* an exchange was started are a prefix of the configured list, at most one
\* exchange is unsettled, the exchange on the next position is started only
\* after the forwarder saw the previous one fail, and none after a success.
SequentialFallback ==
    \A k \in Invocations :
        /\ Len(started[k]) <= Len(forwarders)
        /\ started[k] = SubSeq(forwarders, 1, Len(started[k]))
        /\ failed[k] <= Len(started[k])
        /\ Len(started[k]) <= failed[k] + 1
        /\ result[k] # None => Len(started[k]) = failed[k] + 1
        /\ pc[k] \in {"lookup", "udp", "udpDone"} => Len(started[k]) = failed[k] + 1

OverlappingInvocations ==
    /\ pc[1] = "udp"
    /\ pc[2] = "udp"
    /\ Len(started[1]) = 2
    /\ Len(started[2]) = 1
    /\ forwarders[1] # forwarders[2]

\* C4: whatever an exchange was rejected with, the forwarder then starts the
\* exchange on the next position when there is one (and else gives up) and
\* does not call the continuation; the continuation is never handed the
\* error of an exchange: without a success it gets nothing but the exhaustion.
FailureKinds ==
    {"AddressLookupFailure", "SendFailure", "Timeout", "ConnectFailure",
     "Connection has been ended"}

AnyFailureAdvances ==
    /\ [](\A k \in Invocations :
            /\ pc[k] = "rejected" => error[k] \in FailureKinds
            /\ \A i \in 1..Len(nextCalls[k]) : nextCalls[k][i] \notin FailureKinds
            /\ result[k] = None =>
                  nextCalls[k] \in {<<>>, <<"No more servers to try">>})
    /\ [][\A k \in Invocations :
            (pc[k] = "rejected" /\ pc'[k] # "rejected") =>
                /\ nextCalls'[k] = nextCalls[k]
                /\ IF Len(started[k]) < Len(forwarders)
                   THEN /\ pc'[k] = "lookup"
                        /\ started'[k] =
                               Append(started[k], forwarders[Len(started[k]) + 1])
                   ELSE /\ pc'[k] = "exhausted"
                        /\ started'[k] = started[k]]_vars

NextAfterConnectFailure ==
    /\ pc[1] = "lookup"
    /\ error[1] = "ConnectFailure"
    /\ Len(started[1]) = 2

\* C5: in one exchange a TCP connection is attempted exactly when the UDP
\* result is truncated: then once, after the UDP socket is closed and its
\* timer cancelled, to the address and port of the datagram; a UDP result
\* that is not truncated is the result of the exchange and no connection is
\* opened.
TcpIffTruncated ==
    \A k \in Invocations :
        /\ tcpAttempts[k] <= 1
        /\ tcpAttempts[k] = 1 =>
              /\ response[k] # None
              /\ response[k].truncated
              /\ udpSocket[k] = "closed"
              /\ udpTimer[k] = "cleared"
              /\ tcpDest[k] = udpDest[k]
        /\ (response[k] # None /\ pc[k] # "udpDone") =>
              IF response[k].truncated
              THEN tcpAttempts[k] = 1 /\ tcpSocket[k] # "none"
              ELSE /\ tcpAttempts[k] = 0
                   /\ tcpSocket[k] = "none"
                   /\ result[k] = response[k]
        /\ response[k] = None => tcpAttempts[k] = 0 /\ tcpSocket[k] = "none"

TruncatedThenTcp ==
    /\ pc[1] = "tcp"
    /\ tcpAttempts[1] = 1
    /\ response[1].truncated

\* C6: a decoded datagram with another id than the query's leaves the UDP
\* phase as it was (no result, no failure, socket open, timer armed); a
\* well-formed datagram with the query's id becomes the UDP result, however
\* many others came before it.
UdpIdFilter ==
    /\ [](\A k \in Invocations : response[k] # None => response[k].id = req[k].id)
    /\ [][\A k \in Invocations :
            (Len(dgrams'[k]) = Len(dgrams[k]) + 1) =>
                LET d == dgrams'[k][Len(dgrams'[k])]
                IN  WellFormed(d) =>
                        IF Parse(d).id = req[k].id
                        THEN response'[k] = Parse(d) /\ pc'[k] = "udpDone"
                        ELSE /\ response'[k] = None
                             /\ pc'[k] = "udp"
                             /\ udpSocket'[k] = "open"
                             /\ udpTimer'[k] = "armed"
                             /\ error'[k] = "none"]_vars

AcceptedAfterStray ==
    /\ response[1] # None
    /\ Len(dgrams[1]) = 2
    /\ dgrams[1][1] = Stray(req[1].id)

\* C7: when the UDP timer has fired, the socket is closed and the exchange is
\* rejected with Timeout, whatever datagrams came before; there is no UDP
\* result and no TCP connection.
UdpTimeoutFails ==
    \A k \in Invocations :
        udpTimer[k] = "fired" =>
            /\ udpSocket[k] = "closed"
            /\ error[k] = "Timeout"
            /\ pc[k] \in {"rejected", "exhausted", "done"}
            /\ response[k] = None
            /\ result[k] = None
            /\ tcpAttempts[k] = 0
            /\ tcpSocket[k] = "none"

TimeoutAfterStrays ==
    /\ udpTimer[1] = "fired"
    /\ pc[1] = "rejected"
    /\ dgrams[1] = <<Stray(req[1].id), Stray(req[1].id)>>

\* C8: a datagram that fails to decode is dropped: no error leaves the
\* datagram handler and the process lives on.
MalformedDatagramDropped ==
    \A k \in Invocations :
        (\E i \in 1..Len(dgrams[k]) : ~WellFormed(dgrams[k][i])) =>
            ~uncaught[k] /\ ~crashed

\* C9: when an exchange has settled, every socket and connection it opened
\* has been closed or ended by the client.
SocketsReleased ==
    \A k \in Invocations :
        pc[k] \in {"resolved", "rejected"} =>
            /\ udpSocket[k] \in {"none", "closed"}
            /\ tcpSocket[k] = "none" \/ tcpEnded[k]

\* C10: the client writes a message of length L as the two bytes of L, high
\* byte first, and the L bytes; the reassembler fed that frame in chunks of
\* any sizes hands the decoder the L bytes, once, when the last byte is in.
FrameRoundTrip ==
    LET L == Len(frameMsg)
        w == written[1]
    IN  /\ Len(w) = L + 2
        /\ w[1] \in 0..255
        /\ w[2] \in 0..255
        /\ w[1] * 256 + w[2] = L
        /\ SubSeq(w, 3, L + 2) = frameMsg
        /\ handed[1] = IF stream[1] = <<>> THEN <<frameMsg>> ELSE <<>>

LongFrameReassembled ==
    /\ Len(frameMsg) > 255
    /\ stream[1] = <<>>
    /\ handed[1] = <<frameMsg>>

\* C11: when the peer's stream of a frame with another id followed by a
\* frame with the query's id has been delivered whole on the open connection
\* and the TCP timer has not fired, the second frame was handed to the
\* decoder as its own bytes and is the result of the exchange.
SecondFrameReturned ==
    \A k \in Invocations :
        ( /\ Len(handed[k]) >= 1
          /\ handed[k][1] = Stray(req[k].id)
          /\ stream[k] = <<>>
          /\ ~peerEnded[k]
          /\ tcpSocket[k] = "open"
          /\ tcpTimer[k] # "fired" ) =>
            /\ handed[k] = <<Stray(req[k].id), Good(CurServer(k), req[k].id)>>
            /\ result[k] = Parse(Good(CurServer(k), req[k].id))

\* C12: once the connection has raised an error or was ended by the peer
\* before a matching response, the exchange is no longer waiting on it.
TerminationFailsExchange ==
    \A k \in Invocations :
        pc[k] = "tcp" => tcpSocket[k] = "open" /\ ~peerEnded[k]

\* C13: once a complete frame has failed to decode, the exchange is no
\* longer waiting for a frame or for the TCP timer.
DecodeFailureFailsExchange ==
    \A k \in Invocations :
        pc[k] = "tcp" => \A i \in 1..Len(handed[k]) : WellFormed(handed[k][i])

\* C14: at every network wait of an exchange (for a datagram, for the
\* connect, for a frame) a timer of the exchange is armed.
WaitsHaveTimer ==
    \A k \in Invocations :
        pc[k] \in {"udp", "connecting", "tcp"} =>
            udpTimer[k] = "armed" \/ tcpTimer[k] = "armed"

\* C16: a middleware constructed with the string s has the server list of
\* one constructed with the list of s alone, and does what the latter does
\* (the stage function reads nothing of the argument but the list): one
\* exchange at most, on s, and the exhaustion after its failure.
StringIsOneElementList ==
    ~arg.array =>
        /\ forwarders = Normalize([array |-> TRUE, value |-> <<arg.value>>])
        /\ \A k \in Invocations :
              /\ Len(started[k]) <= 1
              /\ started[k] # <<>> => started[k][1] = arg.value
              /\ GaveUp(k) => failed[k] = 1
              /\ Succeeded(k) => failed[k] = 0

StringServerExhausted ==
    /\ ~arg.array
    /\ GaveUp(1)
    /\ started[1] = <<arg.value>>

\* C17: the response object changes only in the step from a resolved
\* exchange to the completion, there from what it was at the call to the
\* merge; before a success, after any failure and after the completion no
\* step changes it.
MergedOnceAtSuccess ==
    /\ [](\A k \in Invocations :
            (result[k] = None \/ pc[k] # "done") => res[k] = res0[k])
    /\ [][\A k \in Invocations :
            res'[k] # res[k] =>
                /\ pc[k] = "resolved"
                /\ pc'[k] = "done"
                /\ res[k] = res0[k]
                /\ res'[k].rcode = result[k].rcode
                /\ res'[k].answer = res0[k].answer \o result[k].answer
                /\ res'[k].authority = res0[k].authority \o result[k].authority
                /\ res'[k].additional = res0[k].additional \o result[k].additional]_vars

MergedAfterFailure ==
    /\ Succeeded(1)
    /\ failed[1] = 1
    /\ error[1] = "none"
    /\ res[1] # res0[1]

\* C18: the UDP timer and the TCP timer are never armed together, each is
\* armed only while its phase waits, a send error leaves the timer cancelled
\* and the socket closed, an accepted UDP or TCP response leaves the timer
\* of its phase cancelled, and no timer is armed once the exchange settled.
TimersCancelled ==
    \A k \in Invocations :
        /\ ~(udpTimer[k] = "armed" /\ tcpTimer[k] = "armed")
        /\ udpTimer[k] = "armed" => pc[k] = "udp"
        /\ tcpTimer[k] = "armed" => pc[k] = "tcp"
        /\ (pc[k] = "rejected" /\ error[k] = "SendFailure") =>
              udpTimer[k] = "cleared" /\ udpSocket[k] = "closed"
        /\ response[k] # None => udpTimer[k] = "cleared"
        /\ (result[k] # None /\ tcpAttempts[k] = 1) => tcpTimer[k] = "cleared"

SendErrorCancelled ==
    /\ pc[1] = "rejected"
    /\ error[1] = "SendFailure"
    /\ udpTimer[1] = "cleared"
    /\ udpSocket[1] = "closed"

\* C19: once the exchange has a result from the connection, no 'packet'
\* listener is left on it.
ListenerRemoved ==
    \A k \in Invocations :
        (result[k] # None /\ tcpAttempts[k] = 1) => listeners[k] = 0

\* C20: the continuation is called once at most, and once when the
\* invocation has completed.
NextCalledOnce ==
    \A k \in Invocations :
        /\ Len(nextCalls[k]) <= 1
        /\ pc[k] = "done" => Len(nextCalls[k]) = 1

\* ------------------------------------------------- the client called alone
\* client(host, 53, packet, options) called by itself with any options: the
\* state is that of the lookup in flight on the host "A".
InitClient ==
    /\ arg = [array |-> FALSE, value |-> 1]
    /\ res0 = [k \in Invocations |-> EmptyRes]
    /\ InitCommon
    /\ frameMsg = <<>>
    /\ options \in [Invocations -> OptionsGiven]
    /\ \A k \in Invocations : k # 1 => options[k] = NoOptions
    /\ pc = [k \in Invocations |-> IF k = 1 THEN "lookup" ELSE "idle"]
    /\ tcpSocket = [k \in Invocations |-> "none"]
    /\ stream = [k \in Invocations |-> <<>>]
    /\ written = [k \in Invocations |-> <<>>]

NextClient ==
    \/ LookupFailed(1)
    \/ \E a \in LookupResults(CurServer(1)) : LookupDone(1, a)
    \/ \E e \in BOOLEAN : UdpSendDone(1, e)
    \/ UdpTimeout(1)
    \/ \E d \in UdpDatagrams(CurServer(1), req[1].id), dies \in BOOLEAN :
           UdpMessage(1, d, dies)
    \/ AfterUdp(1)
    \/ \E st \in TcpStreams(CurServer(1), req[1].id) : TcpConnect(1, st)
    \/ TcpExchange(1)
    \/ \E n \in 1..Len(stream[1]) : TcpData(1, n)
    \/ TcpError(1)
    \/ TcpPeerEnd(1)
    \/ TcpTimeout(1)

SpecClient == InitClient /\ [][NextClient]_vars

\* C15: every timer of an exchange is armed with the timeout option when
\* that is a positive integer, and with 3000 in every other case.
TimeoutPositiveOrDefault ==
    \A k \in Invocations :
        \A i \in 1..Len(timerDelays[k]) :
            timerDelays[k][i] =
                IF /\ options[k].kind = "object"
                   /\ options[k].timeout.type = "integer"
                   /\ options[k].timeout.v > 0
                THEN options[k].timeout.v
                ELSE 3000
====
